---- MODULE Spec2Model ----
(***************************************************************************)
(* Click-particle effect (src/js/click-particles.js, the refined variant). *)
(*                                                                         *)
(* Real-valued quantities are kept as scaled integers:                     *)
(*   life and decay in thousandths (LifeScale), positions and velocities   *)
(*   in tenths of a pixel (PosScale), Math.random() as k / RandScale.      *)
(* Time is in milliseconds; timers created by setTimeout carry the time    *)
(* that remains until they are due and fire when it reaches 0.             *)
(***************************************************************************)
EXTENDS Integers, Sequences, FiniteSets, TLC

VARIABLES
  particles,     \* let particles = []            (active set, in array order)
  animationId,   \* let animationId = null        (NULL or a frame handle)
  rafQueue,      \* number of animate callbacks the host has scheduled
  nextId,        \* identity of the next Particle object to be allocated
  clickTimeout,  \* `timeout` of the closure throttle() made for click
  touchTimeout,  \* `timeout` of the closure throttle() made for touchstart
  resizeTimeout, \* `timeout` of the closure debounce() made for resize
  timers,        \* host timer table: the pending setTimeout callbacks
  nextTimerId,   \* id the next setTimeout call returns
  canvas,        \* [width, height] of the render surface
  window,        \* [innerWidth, innerHeight] of the viewport
  sinceSpawn,    \* ms elapsed since the last batch was added (capped)
  sinceResize,   \* ms elapsed since the last resize event (capped)
  events,        \* number of input events dispatched so far
  clickBurst,    \* history of the current click window
  resizeBurst,   \* history of the current burst of resize events
  lastOp         \* the callback that ran last, with its arguments

vars == <<particles, animationId, rafQueue, nextId, clickTimeout, touchTimeout,
          resizeTimeout, timers, nextTimerId, canvas, window, sinceSpawn,
          sinceResize, events, clickBurst, resizeBurst, lastOp>>

----------------------------------------------------------------------------
\* Program constants

throttleDelay == 100
resizeDelay == 250
LifeScale == 1000
PosScale == 10
gravity == 3
particleSpeed == 5
RandScale == 20

NULL == 0

----------------------------------------------------------------------------
\* Bounds of the model

\* config.particleCount is 30; the batch is scaled down so that several
\* batches at every offset of the frame loop stay enumerable
particleCount == 3
MaxEvents == 2
MaxResizes == 3
MaxDepth == 2
TimeStep == 50
NumSeeds == 1

----------------------------------------------------------------------------
\* DOM targets: a target is the chain <<element, parent, grandparent, ...>>;
\* an absent target is the empty chain.

NoTarget == <<>>

Node(tag, copy) == [tagName |-> tag, copyBtn |-> copy]

Div == Node("DIV", FALSE)

PlainTarget == <<Div>>
ButtonChild == <<Node("SPAN", FALSE), Node("BUTTON", FALSE)>>

Points == {<<100, 100>>, <<20, 35>>}

Min(a, b) == IF a < b THEN a ELSE b

----------------------------------------------------------------------------
\* Math.random(): the draws of one batch are a stream; draw j of particle i
\* is Draw(s, i, j) / RandScale, in [0, 1).  The decay draws of a stream
\* stay in s.lo .. s.hi, the other draws run over the whole range.

VxDraw == 0
VyDraw == 1
DecayDraw == 4

Stream(lo, hi, shift) == [lo |-> lo, hi |-> hi, shift |-> shift]

Draw(s, i, j) ==
  IF j = DecayDraw
    THEN s.lo + ((i + s.shift) % (s.hi - s.lo + 1))
    ELSE (i * (j + 1) + s.shift) % RandScale

Streams == { Stream(RandScale - 5 + (k % 2), RandScale - 1, 4 + k) : k \in 0..(NumSeeds - 1) }

----------------------------------------------------------------------------
\* class Particle

\* the decay is drawn from [0.01, 0.04)
Particle_WideDecay(id, x, y, s, i) ==
  [ id    |-> id,
    x     |-> x * PosScale,
    y     |-> y * PosScale,
    vx    |-> (Draw(s, i, VxDraw) * particleSpeed * 2 * PosScale) \div RandScale
                - (particleSpeed * PosScale),
    vy    |-> (Draw(s, i, VyDraw) * particleSpeed * 2 * PosScale) \div RandScale
                - (particleSpeed * PosScale),
    life  |-> LifeScale,
    decay |-> (Draw(s, i, DecayDraw) * 3 * LifeScale) \div (100 * RandScale)
                + LifeScale \div 100 ]

\* constructor(x, y): the color and size draws only feed the paint call
Particle(id, x, y, s, i) ==
  [ id    |-> id,
    x     |-> x * PosScale,
    y     |-> y * PosScale,
    vx    |-> (Draw(s, i, VxDraw) * particleSpeed * 2 * PosScale) \div RandScale
                - (particleSpeed * PosScale),
    vy    |-> (Draw(s, i, VyDraw) * particleSpeed * 2 * PosScale) \div RandScale
                - (particleSpeed * PosScale),
    life  |-> LifeScale,
    decay |-> (Draw(s, i, DecayDraw) * 2 * LifeScale) \div (100 * RandScale)
                + LifeScale \div 100 ]

\* the liveness test lets a particle of life 0 through (this.life >= 0)
update_AliveAtZero(p) ==
  LET q == [ p EXCEPT !.x = p.x + p.vx,
                      !.y = p.y + p.vy,
                      !.vy = p.vy + gravity,
                      !.life = p.life - p.decay ]
  IN  [ particle |-> q, alive |-> q.life >= 0 ]

\* update(): the particle after the call and the value the call returns
update(p) ==
  LET q == [ p EXCEPT !.x = p.x + p.vx,
                      !.y = p.y + p.vy,
                      !.vy = p.vy + gravity,
                      !.life = p.life - p.decay ]
  IN  [ particle |-> q, alive |-> q.life > 0 ]

----------------------------------------------------------------------------
\* createParticles(x, y): the array after the pushes

\* the loop runs once too often (i <= config.particleCount)
createParticles_OneTooMany(ps, x, y, s, firstId) ==
  ps \o [ i \in 1..(particleCount + 1) |-> Particle(firstId + i - 1, x, y, s, i) ]

\* the new particles are put in front of the array (unshift for push)
createParticles_Prepends(ps, x, y, s, firstId) ==
  [ i \in 1..particleCount |-> Particle(firstId + i - 1, x, y, s, i) ] \o ps

createParticles(ps, x, y, s, firstId) ==
  ps \o [ i \in 1..particleCount |-> Particle(firstId + i - 1, x, y, s, i) ]

----------------------------------------------------------------------------
\* shouldCreateParticles(target)

excludeSelectors == {"CODE", "PRE", "BUTTON", "A", "INPUT", "TEXTAREA", "SELECT"}

\* the container list without the copy-button class
excludeContainers_NoCopyBtn == <<"pre", "code", "button", "a">>

excludeContainers == <<"pre", "code", "button", ".copy-btn", "a">>

\* Element.matches for the selectors in use: a type selector matches an HTML
\* element whose tagName is its upper-case form, a class selector its class
UpperCase(sel) ==
  CASE sel = "pre" -> "PRE"
    [] sel = "code" -> "CODE"
    [] sel = "button" -> "BUTTON"
    [] sel = "a" -> "A"
    [] OTHER -> sel

Matches(el, sel) ==
  IF sel = ".copy-btn" THEN el.copyBtn ELSE el.tagName = UpperCase(sel)

\* target.closest(selector) is non-null: the element or one of its ancestors matches
Closest(target, sel) == \E k \in 1..Len(target) : Matches(target[k], sel)

\* a Document node has neither tagName nor closest
HasClosest(target) == target[1].tagName # "#document"

\* an absent target passes the check (return true for return false)
shouldCreateParticles_AbsentPasses(target) ==
  IF target = NoTarget THEN TRUE
  ELSE IF target[1].tagName \in excludeSelectors THEN FALSE
  ELSE IF \E n \in 1..Len(excludeContainers) :
            HasClosest(target) /\ Closest(target, excludeContainers[n]) THEN FALSE
  ELSE TRUE

shouldCreateParticles(target) ==
  IF target = NoTarget THEN FALSE
  ELSE IF target[1].tagName \in excludeSelectors THEN FALSE
  ELSE IF \E n \in 1..Len(excludeContainers) :
            HasClosest(target) /\ Closest(target, excludeContainers[n]) THEN FALSE
  ELSE TRUE

----------------------------------------------------------------------------
\* The basic variant: the test its click and touchstart listeners make on an
\* element target before they spawn (true: the listener returns without
\* spawning)

basicRejects(target) ==
  \/ target[1].tagName = "CODE"
  \/ target[1].tagName = "PRE"
  \/ Closest(target, "pre")
  \/ Closest(target, "button")
  \/ Closest(target, ".copy-btn")

----------------------------------------------------------------------------
\* The engine: the module-level variables the frame loop and the spawn
\* controller share.

Engine == [ particles   |-> particles,
            animationId |-> animationId,
            rafQueue    |-> rafQueue,
            nextId      |-> nextId ]

\* animationId = requestAnimationFrame(animate): one more callback is
\* scheduled and its non-zero handle is stored
requestAnimationFrame(st) ==
  [ st EXCEPT !.rafQueue = st.rafQueue + 1,
              !.animationId = st.rafQueue + 1 ]

\* the loop keeps a particle when it was alive before its update
aliveParticles_TestsBefore(ps) ==
  LET kept == SelectSeq(ps, LAMBDA p : p.life > 0)
  IN  [ i \in 1..Len(kept) |-> update(kept[i]).particle ]

\* the active set after the update/draw loop of animate()
aliveParticles(ps) ==
  LET updated == [ i \in 1..Len(ps) |-> update(ps[i]) ]
      kept == SelectSeq(updated, LAMBDA u : u.alive)
  IN  [ i \in 1..Len(kept) |-> kept[i].particle ]

\* the calls the update/draw loop of animate() makes, in the order it makes
\* them: update() on every particle and draw() right after it on a particle
\* that update() reported alive; draw() paints with globalAlpha = this.life
RECURSIVE loopCalls(_)
loopCalls(ps) ==
  IF ps = <<>>
    THEN <<>>
    ELSE LET u == update(Head(ps))
             p == u.particle
         IN  <<[fn |-> "update", id |-> p.id, life |-> p.life]>>
               \o (IF u.alive THEN <<[fn |-> "draw", id |-> p.id, life |-> p.life]>> ELSE <<>>)
               \o loopCalls(Tail(ps))

\* the calls one run of animate() makes: none when it returns early,
\* otherwise ctx.clearRect and then the loop
animateCalls(st) ==
  IF Len(st.particles) = 0
    THEN <<>>
    ELSE <<[fn |-> "clearRect", id |-> 0, life |-> 0]>> \o loopCalls(st.particles)

\* the tick forgets to schedule the next frame
animate_NoReschedule(st) ==
  IF Len(st.particles) = 0
    THEN [ st EXCEPT !.animationId = NULL ]
    ELSE [ st EXCEPT !.particles = aliveParticles(st.particles), !.animationId = NULL ]

\* the tick that empties the active set leaves animationId as it was
animate_KeepsHandle(st) ==
  IF Len(st.particles) = 0
    THEN [ st EXCEPT !.animationId = NULL ]
    ELSE LET alive == aliveParticles(st.particles)
             st1 == [ st EXCEPT !.particles = alive ]
         IN  IF Len(alive) > 0 THEN requestAnimationFrame(st1) ELSE st1

\* animate()
animate(st) ==
  IF Len(st.particles) = 0
    THEN [ st EXCEPT !.animationId = NULL ]
    ELSE LET alive == aliveParticles(st.particles)
             st1 == [ st EXCEPT !.particles = alive ]
         IN  IF Len(alive) > 0
               THEN requestAnimationFrame(st1)
               ELSE [ st1 EXCEPT !.animationId = NULL ]

\* the spawn schedules a frame without looking at animationId
handleParticleCreation_AlwaysSchedules(st, x, y, target, s) ==
  IF ~shouldCreateParticles(target)
    THEN st
    ELSE requestAnimationFrame(
           [ st EXCEPT !.particles = createParticles(st.particles, x, y, s, st.nextId),
                       !.nextId = st.nextId + particleCount ])

\* handleParticleCreation(x, y, target); s is the stream of random draws
handleParticleCreation(st, x, y, target, s) ==
  IF ~shouldCreateParticles(target)
    THEN st
    ELSE LET st1 == [ st EXCEPT
                        !.particles = createParticles(st.particles, x, y, s, st.nextId),
                        !.nextId = st.nextId + particleCount ]
         IN  IF st1.animationId = NULL
               THEN requestAnimationFrame(st1)
               ELSE st1

SetEngine(st) ==
  /\ particles' = st.particles
  /\ animationId' = st.animationId
  /\ rafQueue' = st.rafQueue
  /\ nextId' = st.nextId
  /\ sinceSpawn' = IF Len(st.particles) > Len(particles) THEN 0 ELSE sinceSpawn

----------------------------------------------------------------------------
\* Events and timers

MouseEvent(p, t) ==
  [type |-> "click", clientX |-> p[1], clientY |-> p[2], touches |-> <<>>, target |-> t]

TouchEvent(tl, t) ==
  [type |-> "touchstart", clientX |-> 0, clientY |-> 0, touches |-> tl, target |-> t]

\* the events the page receives: clicks at either point on a plain element,
\* a click inside a button, a touch with one touch point and one with none
ClickEvents ==
  { MouseEvent(p, PlainTarget) : p \in Points } \cup { MouseEvent(<<100, 100>>, ButtonChild) }

TouchEvents ==
  { TouchEvent(<< <<20, 35>> >>, PlainTarget), TouchEvent(<<>>, PlainTarget) }

NoEvent == [type |-> "none", clientX |-> 0, clientY |-> 0, touches |-> <<>>, target |-> NoTarget]

Timer(id, owner, wait, e) == [id |-> id, owner |-> owner, remaining |-> wait, args |-> e]

Pending(owner) == { t \in timers : t.owner = owner }

Op(name, calls) == [op |-> name, calls |-> calls]

Call(x, y, target) == [x |-> x, y |-> y, target |-> target]

\* the wrapper arms a timer for every event
throttleIdle_Always(timeout) == TRUE

\* throttle(): the wrapper's test `if (!timeout)`
throttleIdle(timeout) == timeout = NULL

\* an event that finds the timer pending cancels it and arms a new one
Throttled_Restarts(timeout, owner, e) ==
  [ timeout |-> nextTimerId,
    timers  |-> { t \in timers : t.id # timeout }
                  \cup {Timer(nextTimerId, owner, throttleDelay, e)},
    nextTimerId |-> nextTimerId + 1 ]

\* the pending callback is handed the arguments of the latest event
Throttled_LatestArgs(timeout, owner, e) ==
  IF throttleIdle(timeout)
    THEN [ timeout |-> nextTimerId,
           timers  |-> timers \cup {Timer(nextTimerId, owner, throttleDelay, e)},
           nextTimerId |-> nextTimerId + 1 ]
    ELSE [ timeout |-> timeout,
           timers  |-> { IF t.id = timeout THEN [t EXCEPT !.args = e] ELSE t : t \in timers },
           nextTimerId |-> nextTimerId ]

\* the function throttle(func, config.throttleDelay) returns, called with e
Throttled(timeout, owner, e) ==
  IF throttleIdle(timeout)
    THEN [ timeout |-> nextTimerId,
           timers  |-> timers \cup {Timer(nextTimerId, owner, throttleDelay, e)},
           nextTimerId |-> nextTimerId + 1 ]
    ELSE [ timeout |-> timeout, timers |-> timers, nextTimerId |-> nextTimerId ]

\* a click event is dispatched to the throttled click listener
Click(e) ==
  /\ events < MaxEvents
  /\ LET r == Throttled(clickTimeout, "click", e)
     IN  /\ clickTimeout' = r.timeout
         /\ timers' = r.timers
         /\ nextTimerId' = r.nextTimerId
  /\ events' = events + 1
  /\ clickBurst' = IF Pending("click") = {}
                     THEN [clicks |-> 1, calls |-> 0, added |-> 0,
                           first |-> e, ignored |-> {}, elapsed |-> 0]
                     ELSE [clickBurst EXCEPT !.clicks = @ + 1, !.ignored = @ \cup {e}]
  /\ lastOp' = Op("click", <<>>)
  /\ UNCHANGED <<particles, animationId, rafQueue, nextId, touchTimeout, resizeTimeout,
                 canvas, window, sinceSpawn, sinceResize, resizeBurst>>

\* a touchstart event is dispatched to the throttled touchstart listener
Touchstart(e) ==
  /\ events < MaxEvents
  /\ LET r == Throttled(touchTimeout, "touchstart", e)
     IN  /\ touchTimeout' = r.timeout
         /\ timers' = r.timers
         /\ nextTimerId' = r.nextTimerId
  /\ events' = events + 1
  /\ lastOp' = Op("touchstart", <<>>)
  /\ UNCHANGED <<particles, animationId, rafQueue, nextId, clickTimeout, resizeTimeout,
                 canvas, window, sinceSpawn, sinceResize, clickBurst, resizeBurst>>

\* the timer of the click throttle is due: timeout = null; func.apply(this, args)
ClickTimer(t) ==
  /\ t \in Pending("click")
  /\ t.remaining = 0
  /\ timers' = timers \ {t}
  /\ clickTimeout' = NULL
  /\ \E s \in Streams :
       LET st == handleParticleCreation(Engine, t.args.clientX, t.args.clientY, t.args.target, s)
       IN  /\ SetEngine(st)
           /\ clickBurst' = [clickBurst EXCEPT !.calls = @ + 1,
                                               !.added = @ + Len(st.particles) - Len(particles)]
  /\ lastOp' = Op("clickTimer", <<Call(t.args.clientX, t.args.clientY, t.args.target)>>)
  /\ UNCHANGED <<touchTimeout, resizeTimeout, nextTimerId, canvas, window, sinceResize,
                 events, resizeBurst>>

\* the listener spawns without testing that a touch point exists
TouchTimer_NoGuard(t) ==
  /\ t \in Pending("touchstart")
  /\ t.remaining = 0
  /\ timers' = timers \ {t}
  /\ touchTimeout' = NULL
  /\ LET touch == IF t.args.touches # <<>> THEN t.args.touches[1]
                  ELSE <<t.args.clientX, t.args.clientY>>
     IN  /\ \E s \in Streams :
              SetEngine(handleParticleCreation(Engine, touch[1], touch[2], t.args.target, s))
         /\ lastOp' = Op("touchTimer", <<Call(touch[1], touch[2], t.args.target)>>)
  /\ UNCHANGED <<clickTimeout, resizeTimeout, nextTimerId, canvas, window, sinceResize,
                 events, clickBurst, resizeBurst>>

\* the timer of the touchstart throttle is due
TouchTimer(t) ==
  /\ t \in Pending("touchstart")
  /\ t.remaining = 0
  /\ timers' = timers \ {t}
  /\ touchTimeout' = NULL
  /\ IF t.args.touches # <<>>
       THEN LET touch == t.args.touches[1]
            IN  /\ \E s \in Streams :
                     SetEngine(handleParticleCreation(Engine, touch[1], touch[2], t.args.target, s))
                /\ lastOp' = Op("touchTimer", <<Call(touch[1], touch[2], t.args.target)>>)
       ELSE /\ UNCHANGED <<particles, animationId, rafQueue, nextId, sinceSpawn>>
            /\ lastOp' = Op("touchTimer", <<>>)
  /\ UNCHANGED <<clickTimeout, resizeTimeout, nextTimerId, canvas, window, sinceResize,
                 events, clickBurst, resizeBurst>>

\* the host runs a scheduled frame callback
FrameCallback ==
  /\ rafQueue > 0
  /\ SetEngine(animate([Engine EXCEPT !.rafQueue = rafQueue - 1]))
  /\ lastOp' = Op("animate", animateCalls(Engine))
  /\ UNCHANGED <<clickTimeout, touchTimeout, resizeTimeout, timers, nextTimerId, canvas,
                 window, sinceResize, events, clickBurst, resizeBurst>>

\* time passes, up to the moment the next timer is due
Elapse(d) == { [t EXCEPT !.remaining = @ - d] : t \in timers }

Advance ==
  /\ \A t \in timers : t.remaining > 0
  /\ timers # {} \/ sinceSpawn < throttleDelay \/ sinceResize < resizeDelay
  /\ LET rem == { t.remaining : t \in timers } \cup {TimeStep}
         d == CHOOSE m \in rem : \A n \in rem : m <= n
     IN  /\ timers' = Elapse(d)
         /\ sinceSpawn' = Min(sinceSpawn + d, throttleDelay)
         /\ sinceResize' = Min(sinceResize + d, resizeDelay)
         /\ clickBurst' = IF Pending("click") # {}
                            THEN [clickBurst EXCEPT !.elapsed = Min(@ + d, throttleDelay)]
                            ELSE clickBurst
  /\ lastOp' = Op("advance", <<>>)
  /\ UNCHANGED <<particles, animationId, rafQueue, nextId, clickTimeout, touchTimeout,
                 resizeTimeout, nextTimerId, canvas, window, events, resizeBurst>>

----------------------------------------------------------------------------
\* The page after the script has run: no particle, no frame scheduled, the
\* canvas sized by the first resizeCanvas() call.

Sizes == { <<800, 600>>, <<1024, 768>>, <<640, 480>> }

Viewport(sz) == [innerWidth |-> sz[1], innerHeight |-> sz[2]]

Init ==
  /\ particles = <<>>
  /\ animationId = NULL
  /\ rafQueue = 0
  /\ nextId = 1
  /\ clickTimeout = NULL
  /\ touchTimeout = NULL
  /\ resizeTimeout = NULL
  /\ timers = {}
  /\ nextTimerId = 1
  /\ window = Viewport(<<800, 600>>)
  /\ canvas = [width |-> window.innerWidth, height |-> window.innerHeight]
  /\ sinceSpawn = throttleDelay
  /\ sinceResize = resizeDelay
  /\ events = 0
  /\ clickBurst = [clicks |-> 0, calls |-> 0, added |-> 0,
                   first |-> NoEvent, ignored |-> {}, elapsed |-> 0]
  /\ resizeBurst = [events |-> 0, runs |-> 0]
  /\ lastOp = Op("init", <<>>)

Next ==
  \/ \E e \in ClickEvents : Click(e)
  \/ \E e \in TouchEvents : Touchstart(e)
  \/ \E t \in timers : ClickTimer(t)
  \/ \E t \in timers : TouchTimer(t)
  \/ FrameCallback
  \/ Advance

Spec == Init /\ [][Next]_vars

----------------------------------------------------------------------------
\* The resize listener: debounce(resizeCanvas, 250)

\* resizeCanvas(): the canvas takes the size the viewport has at the call
resizeCanvas(win) == [width |-> win.innerWidth, height |-> win.innerHeight]

\* the wrapper leaves the pending timer in place
clearTimeout_Forgotten(ts, id) == ts

\* clearTimeout(timeout): the timer with that id, if any, is cancelled
clearTimeout(ts, id) == { t \in ts : t.id # id }

\* the function debounce(func, 250) returns, called for one resize event
Debounced(timeout) ==
  [ timeout |-> nextTimerId,
    timers  |-> clearTimeout(timers, timeout)
                  \cup {Timer(nextTimerId, "resize", resizeDelay, NoEvent)},
    nextTimerId |-> nextTimerId + 1 ]

\* the viewport takes the size sz and a resize event is dispatched
Resize(sz) ==
  /\ events < MaxResizes
  /\ window # Viewport(sz)
  /\ window' = Viewport(sz)
  /\ LET r == Debounced(resizeTimeout)
     IN  /\ resizeTimeout' = r.timeout
         /\ timers' = r.timers
         /\ nextTimerId' = r.nextTimerId
  /\ events' = events + 1
  /\ sinceResize' = 0
  /\ resizeBurst' = IF Pending("resize") = {}
                      THEN [events |-> 1, runs |-> 0]
                      ELSE [resizeBurst EXCEPT !.events = @ + 1]
  /\ lastOp' = Op("resize", <<>>)
  /\ UNCHANGED <<particles, animationId, rafQueue, nextId, clickTimeout, touchTimeout,
                 canvas, sinceSpawn, clickBurst>>

\* the timer of the debounce is due: func.apply(this, args)
ResizeTimer(t) ==
  /\ t \in Pending("resize")
  /\ t.remaining = 0
  /\ timers' = timers \ {t}
  /\ canvas' = resizeCanvas(window)
  /\ resizeBurst' = [resizeBurst EXCEPT !.runs = @ + 1]
  /\ lastOp' = Op("resizeTimer", <<>>)
  /\ UNCHANGED <<particles, animationId, rafQueue, nextId, clickTimeout, touchTimeout,
                 resizeTimeout, nextTimerId, window, sinceSpawn, sinceResize, events,
                 clickBurst>>

ResizeNext ==
  \/ \E sz \in Sizes : Resize(sz)
  \/ \E t \in timers : ResizeTimer(t)
  \/ Advance

ResizeSpec == Init /\ [][ResizeNext]_vars

----------------------------------------------------------------------------
\* The visibilitychange listener

\* the listener pauses the loop of a hidden page (the code it keeps commented
\* out: cancelAnimationFrame(animationId); animationId = null)
VisibilityChange_Pauses(hidden) ==
  /\ IF hidden /\ animationId # NULL
       THEN rafQueue' = 0 /\ animationId' = NULL
       ELSE UNCHANGED <<rafQueue, animationId>>
  /\ lastOp' = Op("visibilitychange", <<[hidden |-> hidden]>>)
  /\ UNCHANGED <<particles, nextId, clickTimeout, touchTimeout, resizeTimeout, timers,
                 nextTimerId, canvas, window, sinceSpawn, sinceResize, events, clickBurst,
                 resizeBurst>>

\* document.hidden has become `hidden` and the listener runs: the body of its
\* `if (document.hidden && animationId)` holds comments only
VisibilityChange(hidden) ==
  /\ IF hidden /\ animationId # NULL
       THEN UNCHANGED <<rafQueue, animationId>>
       ELSE UNCHANGED <<rafQueue, animationId>>
  /\ lastOp' = Op("visibilitychange", <<[hidden |-> hidden]>>)
  /\ UNCHANGED <<particles, nextId, clickTimeout, touchTimeout, resizeTimeout, timers,
                 nextTimerId, canvas, window, sinceSpawn, sinceResize, events, clickBurst,
                 resizeBurst>>

----------------------------------------------------------------------------
\* The spawn controller called on any target: chains of up to MaxDepth
\* elements of every kind the exclusion check looks at, the document, and
\* no target at all.

Tags == excludeSelectors \cup {"DIV", "OPTION"}

Elements == { Node(tag, copy) : tag \in Tags, copy \in BOOLEAN }

Chains(n) == UNION { [1..k -> Elements] : k \in 1..n }

DocumentTarget == <<Node("#document", FALSE)>>

ProbeTargets == Chains(MaxDepth) \cup {DocumentTarget, NoTarget}

\* handleParticleCreation(x, y, target) is called
Probe(p, target) ==
  /\ events < 1
  /\ \E s \in Streams : SetEngine(handleParticleCreation(Engine, p[1], p[2], target, s))
  /\ events' = events + 1
  /\ lastOp' = Op("probe", <<Call(p[1], p[2], target)>>)
  /\ UNCHANGED <<clickTimeout, touchTimeout, resizeTimeout, timers, nextTimerId, canvas,
                 window, sinceResize, clickBurst, resizeBurst>>

ProbeNext ==
  \/ \E target \in ProbeTargets : Probe(<<100, 100>>, target)
  \/ FrameCallback

ProbeSpec == Init /\ [][ProbeNext]_vars

----------------------------------------------------------------------------
\* Batches of every lifetime

\* decay draws from both ends of the range of Math.random(): the decays of a
\* batch start at 0.01, or end at 0.029
LifeStreams == { Stream(0, RandScale - 1, RandScale - 1),
                 Stream(0, RandScale - 1, RandScale - particleCount - 1) }

\* handleParticleCreation(x, y, target) is called on the plain element, on an
\* idle or a running loop
Burst(p, s) ==
  /\ events < MaxEvents
  /\ SetEngine(handleParticleCreation(Engine, p[1], p[2], PlainTarget, s))
  /\ events' = events + 1
  /\ lastOp' = Op("probe", <<Call(p[1], p[2], PlainTarget)>>)
  /\ UNCHANGED <<clickTimeout, touchTimeout, resizeTimeout, timers, nextTimerId, canvas,
                 window, sinceResize, clickBurst, resizeBurst>>

LifeNext ==
  \/ \E s \in LifeStreams : Burst(<<100, 100>>, s)
  \/ FrameCallback

LifeSpec == Init /\ [][LifeNext]_vars

----------------------------------------------------------------------------
\* Properties of the spawn controller

\* the handler ran in the step that led to this state
calledHandler == lastOp.op \in {"clickTimer", "touchTimer", "probe"} /\ lastOp.calls # <<>>

ParticleIds(ps) == [ i \in 1..Len(ps) |-> ps[i].id ]

\* C1: every call of handleParticleCreation(x, y, target) whose target passes
\* the exclusion check appends exactly particleCount particles at (x, y) with
\* life 1.0 behind the particles already there, which it leaves as they were;
\* a call whose target is rejected leaves the active set as it was.
C1_SpawnAddsOneBatch ==
  [][ calledHandler' =>
        LET c == lastOp'.calls[1]
            n == Len(particles)
        IN  IF shouldCreateParticles(c.target)
              THEN /\ Len(particles') = n + particleCount
                   /\ SubSeq(particles', 1, n) = particles
                   /\ \A i \in (n + 1)..Len(particles') :
                        /\ particles'[i].x = c.x * PosScale
                        /\ particles'[i].y = c.y * PosScale
                        /\ particles'[i].life = LifeScale
              ELSE particles' = particles ]_vars

\* a batch has just been appended behind particles of an earlier batch
C1_Witness ==
  /\ calledHandler
  /\ shouldCreateParticles(lastOp.calls[1].target)
  /\ Len(particles) > particleCount
  /\ particles[Len(particles)].life = LifeScale
  /\ particles[1].life < LifeScale

----------------------------------------------------------------------------
\* Properties of the frame loop

ticked == lastOp.op = "animate"

\* the particles of ps that are alive after one more update, in order
Survivors(ps) == SelectSeq(ps, LAMBDA p : p.life - p.decay > 0)

\* C3: after a frame tick the active set is exactly the particles of the
\* pre-tick set whose update left them alive (same objects, same order, none
\* added), and the tick schedules the next frame when, and only when, that set
\* is not empty; otherwise animationId is null.
C3_TickKeepsTheAlive ==
  [][ ticked' =>
        /\ ParticleIds(particles') = ParticleIds(Survivors(particles))
        /\ IF particles' # <<>>
             THEN rafQueue' = rafQueue /\ animationId' # NULL
             ELSE rafQueue' = rafQueue - 1 /\ animationId' = NULL ]_vars

\* a tick has removed part of a batch and kept the rest
C3_Witness ==
  /\ ticked
  /\ Len(particles) \in 1..(particleCount - 1)
  /\ animationId # NULL

\* C8: every update() call lowers life by the particle's decay, which is
\* positive and stays as it was, and the call returns false exactly when the
\* life it leaves is <= 0.
C8_LifeDecreasesByDecay ==
  /\ [](\A i \in 1..Len(particles) :
          LET p == particles[i]
              u == update(p)
          IN  /\ p.decay > 0
              /\ u.particle.life = p.life - p.decay
              /\ u.particle.life < p.life
              /\ u.particle.decay = p.decay
              /\ (~u.alive) <=> (u.particle.life <= 0))
  /\ [][ ticked' =>
           \A j \in 1..Len(particles') :
             \E i \in 1..Len(particles) :
               /\ particles[i].id = particles'[j].id
               /\ particles'[j].life = particles[i].life - particles[i].decay
               /\ particles'[j].decay = particles[i].decay ]_vars

\* a particle whose next update leaves it with life exactly 0
C8_Witness ==
  /\ ticked
  /\ \E i \in 1..Len(particles) : particles[i].life = particles[i].decay

\* C9: at most one frame callback is scheduled and animationId is non-null
\* exactly when one is; a spawn leaves exactly one callback scheduled, whether
\* the loop was idle or running.
C9_OneFrameScheduled ==
  /\ [](rafQueue <= 1 /\ ((animationId # NULL) <=> (rafQueue = 1)))
  /\ [][ Len(particles') > Len(particles) =>
           IF animationId = NULL
             THEN rafQueue' = rafQueue + 1 /\ animationId' # NULL
             ELSE rafQueue' = rafQueue /\ animationId' = animationId ]_vars

\* a spawn has happened while the loop was running
C9_Witness ==
  /\ calledHandler
  /\ Len(particles) > particleCount
  /\ rafQueue = 1
  /\ animationId # NULL

\* C10: whenever the active set is not empty a frame callback is scheduled
\* (the loop is Running), so an Idle loop has an empty active set.
C10_NoStrandedParticles ==
  /\ (particles # <<>>) => (rafQueue >= 1 /\ animationId # NULL)
  /\ (animationId = NULL) => (particles = <<>>)

\* particles are alive after a tick and the loop is still running
C10_Witness ==
  /\ ticked
  /\ particles # <<>>
  /\ rafQueue = 1

Idle == particles = <<>> /\ animationId = NULL /\ rafQueue = 0

\* The runs in which no spawn lands on a running loop: an input event is
\* dispatched only when the loop is idle and no throttle timer is pending.
Quiet == Idle /\ timers = {}

QuietClick(e) == Quiet /\ Click(e)

QuietTouchstart(e) == Quiet /\ Touchstart(e)

QuietNext ==
  \/ \E e \in ClickEvents : QuietClick(e)
  \/ \E e \in TouchEvents : QuietTouchstart(e)
  \/ \E t \in timers : ClickTimer(t)
  \/ \E t \in timers : TouchTimer(t)
  \/ FrameCallback
  \/ Advance

\* The host runs every frame callback it has scheduled.
FairSpec == Init /\ [][QuietNext]_vars /\ WF_vars(FrameCallback)

\* C7: a spawn into an idle engine leaves particleCount particles and the loop
\* Running; when frame callbacks keep being delivered the active set empties
\* and the loop becomes Idle, and an Idle loop with an empty set stays so
\* until a spawn.
C7_SpawnThenDrain ==
  /\ [][ (Idle /\ Len(particles') > Len(particles)) =>
           /\ Len(particles') = particleCount
           /\ rafQueue' = 1
           /\ animationId' # NULL ]_vars
  /\ (particles # <<>>) ~> Idle
  /\ [][ (Idle /\ Len(particles') = Len(particles)) => Idle' ]_vars

\* the loop is idle again after the last particle of a batch has died
C7_Witness ==
  /\ ticked
  /\ Idle
  /\ nextId > particleCount

----------------------------------------------------------------------------
\* Properties of the rate limiter

\* C4: any two batches are added at least throttleDelay apart, whichever of
\* the click and touchstart handlers adds them.
C4_SpawnsThrottleDelayApart ==
  [][ Len(particles') > Len(particles) => sinceSpawn >= throttleDelay ]_vars

\* the element kinds that must not receive the effect
Inert(el) == el.tagName \in {"CODE", "PRE", "BUTTON", "A", "INPUT", "TEXTAREA", "SELECT"}
               \/ el.copyBtn

\* C2: a spawn request whose target is an inert element, or has one among its
\* ancestors, adds no particles.
C2_InertAncestorsRejected ==
  (lastOp.op = "probe" /\ \E k \in 1..Len(lastOp.calls[1].target) :
                             Inert(lastOp.calls[1].target[k]))
     => particles = <<>>

\* C5: the click events that arrive while the timer armed by the first of them
\* is pending lead to one invocation of the click handler, which adds at most
\* one batch.
C5_OneCallPerWindow ==
  /\ clickBurst.calls <= 1
  /\ clickBurst.added <= particleCount
  /\ (Pending("click") # {}) => clickBurst.calls = 0
  /\ (Pending("click") = {} /\ clickBurst.clicks >= 1) =>
        /\ clickBurst.calls = 1
        /\ clickTimeout = NULL

\* two clicks fell into one window and the handler has run for them
C5_Witness ==
  /\ clickBurst.clicks >= 2
  /\ clickBurst.calls = 1
  /\ clickBurst.added = particleCount
  /\ lastOp.op = "clickTimer"

----------------------------------------------------------------------------
\* Properties of the resize handler

\* C6: the resize events of a burst (each arriving while the timer of the one
\* before is pending) lead to one resizeCanvas call; it runs resizeDelay after
\* the last event of the burst, never between two of its events, and gives
\* the canvas the viewport size of that last event.
C6_OneResizePerBurst ==
  /\ [](/\ resizeBurst.runs <= 1
        /\ (Pending("resize") # {}) => resizeBurst.runs = 0
        /\ (Pending("resize") = {} /\ resizeBurst.events >= 1) =>
              /\ resizeBurst.runs = 1
              /\ canvas = [width |-> window.innerWidth, height |-> window.innerHeight])
  /\ [][ lastOp'.op = "resizeTimer" =>
           /\ sinceResize = resizeDelay
           /\ canvas' = [width |-> window.innerWidth, height |-> window.innerHeight] ]_vars

\* a burst of several events has ended in one resize to the last size
C6_Witness ==
  /\ lastOp.op = "resizeTimer"
  /\ resizeBurst.events >= 3
  /\ resizeBurst.runs = 1
  /\ canvas = [width |-> window.innerWidth, height |-> window.innerHeight]
  /\ canvas # [width |-> 800, height |-> 600]

----------------------------------------------------------------------------
\* Properties of the particles in the active set and of the calls of a tick

CallsOf(fn) == SelectSeq(lastOp.calls, LAMBDA c : c.fn = fn)

CallIds(cs) == [ i \in 1..Len(cs) |-> cs[i].id ]

\* C11: every particle of the active set has life in (0, 1], so a tick never
\* keeps a particle whose life is <= 0, and every draw() of a tick paints a
\* particle whose life, its opacity, is > 0.
C11_ActiveLifePositive ==
  /\ \A i \in 1..Len(particles) :
       particles[i].life > 0 /\ particles[i].life <= LifeScale
  /\ ticked =>
       \A k \in 1..Len(lastOp.calls) :
         lastOp.calls[k].fn = "draw" =>
           lastOp.calls[k].life > 0 /\ lastOp.calls[k].life <= LifeScale

\* a tick has dropped a particle and drawn the ones it kept
C11_Witness ==
  /\ ticked
  /\ Len(CallsOf("draw")) >= 1
  /\ Len(CallsOf("update")) > Len(CallsOf("draw"))
  /\ particles # <<>>

\* C12: the active set is in creation order (identities increase along the
\* array, so a later batch lies behind every earlier one); a tick updates the
\* pre-tick particles in that order and draws each particle it keeps right
\* after that particle's own update.
C12_StableInsertionOrder ==
  /\ [](\A i \in 1..Len(particles) : \A j \in 1..Len(particles) :
           i < j => particles[i].id < particles[j].id)
  /\ [][ ticked' =>
           LET cs == lastOp'.calls
           IN  /\ CallIds(SelectSeq(cs, LAMBDA c : c.fn = "update")) = ParticleIds(particles)
               /\ CallIds(SelectSeq(cs, LAMBDA c : c.fn = "draw")) = ParticleIds(particles')
               /\ \A k \in 1..Len(cs) :
                    cs[k].fn = "draw" =>
                      k > 1 /\ cs[k - 1].fn = "update" /\ cs[k - 1].id = cs[k].id ]_vars

\* a tick has run over the particles of two batches
C12_Witness ==
  /\ ticked
  /\ Len(particles) > particleCount
  /\ particles[Len(particles)].id > particleCount
  /\ particles[1].id <= particleCount
  /\ Len(CallsOf("draw")) = Len(particles)

\* C20: animate never runs with an empty active set, so it never takes its
\* early return and every tick starts by clearing the render surface.
C20_TickNeverEmpty ==
  /\ [][ ticked' => particles # <<>> ]_vars
  /\ [](ticked => (lastOp.calls # <<>> /\ lastOp.calls[1].fn = "clearRect"))

\* the tick that empties the active set has cleared the surface
C20_Witness ==
  /\ ticked
  /\ particles = <<>>
  /\ animationId = NULL
  /\ lastOp.calls[1].fn = "clearRect"

----------------------------------------------------------------------------
\* Properties of the trailing edge of the rate limiter

\* an event whose target passes the exclusion check
Qualifies(e) == shouldCreateParticles(e.target)

\* the click window is over: its timer has fired
WindowOver == Pending("click") = {} /\ clickBurst.clicks >= 1

\* C13: an event adds no particles when it arrives; the click that arms the
\* timer has its handler run once, throttleDelay later, with its own
\* coordinates and target, and a click that arrives while the timer is pending
\* changes neither the timer nor the active set.
C13_TrailingEdge ==
  /\ [][ lastOp'.op \in {"click", "touchstart"} =>
           UNCHANGED <<particles, animationId, rafQueue>> ]_vars
  /\ [][ (lastOp'.op = "click" /\ Pending("click") # {}) =>
           UNCHANGED <<timers, clickTimeout>> ]_vars
  /\ [][ lastOp'.op = "clickTimer" =>
           LET e == clickBurst.first
           IN  /\ clickBurst.calls = 0
               /\ clickBurst.elapsed = throttleDelay
               /\ lastOp'.calls = <<Call(e.clientX, e.clientY, e.target)>>
               /\ \A i \in (Len(particles) + 1)..Len(particles') :
                    /\ particles'[i].x = e.clientX * PosScale
                    /\ particles'[i].y = e.clientY * PosScale ]_vars

\* a batch has been added at the point of the first click of a window in
\* which a click at another point was ignored
C13_Witness ==
  /\ lastOp.op = "clickTimer"
  /\ clickBurst.added = particleCount
  /\ \E e \in clickBurst.ignored :
       e.clientX # clickBurst.first.clientX /\ e.clientY # clickBurst.first.clientY
  /\ particles[Len(particles)].x = clickBurst.first.clientX * PosScale

\* C14 as stated: a window in which some click qualifies ends with a batch,
\* also when a click on an excluded target came first.
C14_QualifyingClickSpawns ==
  (WindowOver /\ \E e \in {clickBurst.first} \cup clickBurst.ignored : Qualifies(e))
     => clickBurst.added = particleCount

\* C14 (amended): the first click of a window decides, whatever its target: the
\* window ends with one batch when that click qualifies and with none when it
\* does not, also when a qualifying click followed it within the window.
C14_FirstClickDecides ==
  WindowOver =>
    clickBurst.added = (IF Qualifies(clickBurst.first) THEN particleCount ELSE 0)

\* a window opened by a click inside a button has swallowed a click on a
\* plain element
C14_Witness ==
  /\ WindowOver
  /\ lastOp.op = "clickTimer"
  /\ ~Qualifies(clickBurst.first)
  /\ \E e \in clickBurst.ignored : Qualifies(e)
  /\ clickBurst.added = 0

----------------------------------------------------------------------------
\* Properties of the guards of the listeners

\* C15: when the handler of a touchstart event without touch points runs, it
\* does not call the spawn controller and leaves the active set, animationId
\* and the scheduled frame callback as they were.
C15_EmptyTouchIgnored ==
  [][ lastOp'.op = "touchTimer" =>
        \A t \in timers \ timers' :
          t.args.touches = <<>> =>
            /\ lastOp'.calls = <<>>
            /\ UNCHANGED <<particles, animationId, rafQueue, nextId>> ]_vars

\* the handler of a touchstart without touch points has run on a running loop
C15_Witness ==
  /\ lastOp.op = "touchTimer"
  /\ lastOp.calls = <<>>
  /\ particles # <<>>
  /\ rafQueue = 1
  /\ touchTimeout = NULL

probed == lastOp.op = "probe"

\* C16 as stated: a spawn request without a target adds the batch.
C16_AbsentTargetSpawns ==
  (probed /\ lastOp.calls[1].target = NoTarget) => Len(particles) = particleCount

\* C16 (amended): a spawn request whose target is absent is rejected: it adds
\* no particle and leaves the loop idle.
C16_AbsentTargetRejected ==
  (probed /\ lastOp.calls[1].target = NoTarget) =>
    /\ particles = <<>>
    /\ animationId = NULL
    /\ rafQueue = 0
    /\ nextId = 1

\* the spawn controller has been called without a target
C16_Witness ==
  /\ probed
  /\ lastOp.calls[1].target = NoTarget
  /\ events = 1

\* an element target: a chain of elements, neither absent nor the document
IsElement(target) == target # NoTarget /\ target # DocumentTarget

\* C18: every element target the basic variant's listeners reject is rejected
\* by the refined variant's spawn controller too.
C18_BasicRejectionsKept ==
  (probed /\ IsElement(lastOp.calls[1].target) /\ basicRejects(lastOp.calls[1].target))
     => particles = <<>>

\* a plain element inside a copy button, rejected by both variants
C18_Witness ==
  /\ probed
  /\ Len(lastOp.calls[1].target) = 2
  /\ lastOp.calls[1].target[1] = Div
  /\ lastOp.calls[1].target[2] = Node("DIV", TRUE)
  /\ basicRejects(lastOp.calls[1].target)
  /\ particles = <<>>

----------------------------------------------------------------------------
\* Properties of the visibilitychange listener

\* The page with all its listeners: visibility changes, resizes and touches
\* come at any moment, clicks when the loop is idle.
PageNext ==
  \/ \E e \in ClickEvents : QuietClick(e)
  \/ \E e \in TouchEvents : Touchstart(e)
  \/ \E t \in timers : ClickTimer(t)
  \/ \E t \in timers : TouchTimer(t)
  \/ FrameCallback
  \/ Advance
  \/ \E sz \in Sizes : Resize(sz)
  \/ \E t \in timers : ResizeTimer(t)
  \/ \E hidden \in BOOLEAN : VisibilityChange(hidden)

PageSpec == Init /\ [][PageNext]_vars

----------------------------------------------------------------------------
\* Lifetime of a particle

Ceil(a, b) == (a + b - 1) \div b

\* the ticks the particle has been through: its life is 1 - ticks * decay
Age(p) == (LifeScale - p.life) \div p.decay

\* C19: a tick removes a particle exactly when it is the particle's tick number
\* ceil(1/decay), the first at which its life is <= 0; that tick is never
\* before the 34th nor after the 100th, whatever else is in the active set.
C19_RemovedAtCeilTick ==
  [][ ticked' =>
        \A i \in 1..Len(particles) :
          LET p       == particles[i]
              n       == Age(p) + 1
              removed == \A j \in 1..Len(particles') : particles'[j].id # p.id
          IN  /\ p.life = LifeScale - Age(p) * p.decay
              /\ removed <=> n = Ceil(LifeScale, p.decay)
              /\ removed <=> (p.life > 0 /\ p.life - p.decay <= 0)
              /\ removed => n - 1 >= 33 /\ n <= 100 ]_vars

\* a tick has removed a particle of the first batch at its 100th tick (only a
\* decay of 0.01 brings life to exactly 0) next to particles of a later batch
C19_Witness ==
  /\ ticked
  /\ \E k \in 1..Len(lastOp.calls) :
        LET c == lastOp.calls[k]
        IN  /\ c.fn = "update"
            /\ c.life = 0
            /\ c.id <= particleCount
            /\ \A j \in 1..Len(particles) : particles[j].id # c.id
  /\ \E j \in 1..Len(particles) : particles[j].id > particleCount

====
